---- MODULE Spec2Model ----
(***************************************************************************)
(* A model of generate.js, the generator of React wrappers for the         *)
(* Material Web components: the walk over the cloned source tree, the      *)
(* extraction of variants, events and documentation from source text, and  *)
(* the writing of one module per component and of the main index.          *)
(*                                                                         *)
(* A JavaScript string is modelled as a sequence of atoms.  An atom is one *)
(* character ("a", ".", "\n") or one of the keywords the code looks for    *)
(* ("@customElement", "export class", "@fires", "@property"), which stands *)
(* for its characters in a row.  The source texts of the model never put a *)
(* word character next to a keyword, so that a match never begins or ends  *)
(* inside one.                                                             *)
(***************************************************************************)
EXTENDS Integers, Sequences, FiniteSets, TLC

VARIABLES
  tree,        \* the cloned source tree: the listing of TEMP_DIR
  pc,          \* the position of main()
  exitCode,    \* the exit status of the process; NoExit while it runs
  di,          \* analyzeComponentStructure: index of the current entry
  fi,          \* findAllComponentVariants: index of the current file
  loc,         \* findAllComponentVariants: its local state (variants, ...)
  components,  \* analyzeComponentStructure: the components found so far
  returns,     \* history: what findAllComponentVariants returned, per call
  ci,          \* createOutputStructure: index of the current component
  outDirs,     \* output directories created under OUTPUT_DIR
  modules,     \* index.tsx files written, by component folder
  allExports,  \* createOutputStructure: the export records collected
  manifest,    \* the lines of OUTPUT_DIR/index.ts; NotWritten before
  cleaned,     \* whether TEMP_DIR was removed
  io,          \* history: the kinds of I/O failure that occurred
  uIn,         \* unit specifications: the input of the function applied
  uOut,        \* unit specifications: its result
  uDone        \* unit specifications: whether it was applied

pipeVars == <<tree, pc, exitCode, di, fi, loc, components, returns, ci,
              outDirs, modules, allExports, manifest, cleaned, io>>
unitVars == <<uIn, uOut, uDone>>
vars == <<pipeVars, unitVars>>

----------------------------------------------------------------------------
(* Bounds of the model.                                                    *)

MaxEntries == 2
MaxFiles == 2
MaxInternal == 2
MaxNameLen == 7
MaxFires == 2
MaxSegments == 4
MaxPieces == 3

----------------------------------------------------------------------------
(* Characters and character classes.                                       *)

Lower == <<"a","b","c","d","e","f","g","h","i","j","k","l","m",
           "n","o","p","q","r","s","t","u","v","w","x","y","z">>
Upper == <<"A","B","C","D","E","F","G","H","I","J","K","L","M",
           "N","O","P","Q","R","S","T","U","V","W","X","Y","Z">>
Digits == {"0","1","2","3","4","5","6","7","8","9"}
Range(f) == {f[i] : i \in DOMAIN f}
\* \w
WordChars == Range(Lower) \cup Range(Upper) \cup Digits \cup {"_"}
\* \s
Space == {" ", "\n", "\t"}
\* The three quote characters: single, double, backquote.
SQ == "'"
DQ == "dq"
BQ == "bq"
Quotes == {SQ, DQ, BQ}

CE == "@customElement"
EC == "export class"
FIRES == "@fires"
PROP == "@property"

\* The characters an atom stands for.
AtomChars(a) ==
  CASE a = CE    -> {"@","c","u","s","t","o","m","E","l","e","n"}
    [] a = EC    -> {"e","x","p","o","r","t"," ","c","l","a","s"}
    [] a = FIRES -> {"@","f","i","r","e","s"}
    [] a = PROP  -> {"@","p","r","o","e","t","y"}
    [] OTHER     -> {a}

\* String.prototype.toUpperCase on one character.
ToUpperCase(c) ==
  IF \E i \in 1..26 : Lower[i] = c
  THEN Upper[CHOOSE i \in 1..26 : Lower[i] = c]
  ELSE c

Min(S) == CHOOSE x \in S : \A y \in S : x <= y
Max(S) == CHOOSE x \in S : \A y \in S : x >= y

----------------------------------------------------------------------------
(* Regular expressions.  A pattern is a sequence of items; an item is a    *)
(* character class (set, or its complement when neg) with a quantifier q:  *)
(* "1" one, "?" at most one, "*" and "+" greedy, "*?" lazy.                *)

One(c) == [neg |-> FALSE, set |-> {c}, q |-> "1"]
Lit(str) == [i \in 1..Len(str) |-> One(str[i])]
In(S, q) == [neg |-> FALSE, set |-> S, q |-> q]
NotIn(S, q) == [neg |-> TRUE, set |-> S, q |-> q]

InClass(a, it) ==
  IF it.neg THEN AtomChars(a) \cap it.set = {}
  ELSE a \in it.set \/ AtomChars(a) \subseteq it.set

\* The element of a set of one element: with it, The({F(x) : x \in {e}})
\* stands for LET x == e IN F(x) and has e evaluated once.
The(S) == CHOOSE x \in S : TRUE

\* The number of atoms of s from position p on that are in the class of it.
RECURSIVE RunLen(_, _, _)
RunLen(it, s, p) ==
  IF p <= Len(s) /\ InClass(s[p], it) THEN 1 + RunLen(it, s, p + 1) ELSE 0

\* The numbers of atoms an item may take at position p.
Takes(it, s, p) ==
  The({(IF it.q \in {"1", "+"} THEN 1 ELSE 0) ..
       (IF it.q \in {"1", "?"} THEN (IF run > 0 THEN 1 ELSE 0) ELSE run) :
       run \in {RunLen(it, s, p)}})

\* Of the attempts <<j, match>> those that matched, the one a backtracking
\* matcher reaches first: the least j when lazy, else the greatest.
FirstMatch(tries, lazy) ==
  The({IF ok = {} THEN <<>>
       ELSE (CHOOSE t \in ok : \A u \in ok :
               IF lazy THEN t[1] <= u[1] ELSE t[1] >= u[1])[2] :
       ok \in {{t \in tries : t[2] # <<>>}}})

\* The match of items k.. of pat with s at position p that a backtracking
\* matcher finds first: the position at which each item begins followed by
\* the position after the match, or <<>> when there is none.
RECURSIVE MatchFrom(_, _, _, _)
MatchFrom(pat, k, s, p) ==
  IF k > Len(pat) THEN <<p>>
  ELSE FirstMatch({<<j, The({IF r = <<>> THEN <<>> ELSE <<p>> \o r :
                             r \in {MatchFrom(pat, k + 1, s, p + j)}})>> :
                   j \in Takes(pat[k], s, p)},
                  pat[k].q = "*?")

\* The leftmost match of pat in s that begins at position from or later.
Search(pat, s, from) ==
  FirstMatch({<<p, MatchFrom(pat, 1, s, p)>> : p \in from..(Len(s) + 1)}, TRUE)

\* The text matched by items i..j of the pattern, given the match m.
Group(s, m, i, j) == SubSeq(s, m[i], m[j + 1] - 1)
MatchEnd(m) == m[Len(m)]

----------------------------------------------------------------------------
(* String operations of JavaScript.                                        *)

IsAt(s, sub, p) ==
  /\ p + Len(sub) - 1 <= Len(s)
  /\ \A i \in 1..Len(sub) : s[p + i - 1] = sub[i]
\* String.prototype.includes
Includes(s, sub) == \E p \in 1..(Len(s) + 1) : IsAt(s, sub, p)
\* String.prototype.endsWith
EndsWith(s, sub) == Len(sub) <= Len(s) /\ IsAt(s, sub, Len(s) - Len(sub) + 1)
\* String.prototype.startsWith
StartsWith(s, sub) == IsAt(s, sub, 1)
\* String.prototype.replace with a string pattern: the first occurrence only.
Replace(s, sub, rep) ==
  The({IF at = {} THEN s
       ELSE SubSeq(s, 1, Min(at) - 1) \o rep
              \o SubSeq(s, Min(at) + Len(sub), Len(s)) :
       at \in {{q \in 1..(Len(s) + 1) : IsAt(s, sub, q)}}})
\* String.prototype.trim
Trim(s) ==
  The({IF keep = {} THEN <<>> ELSE SubSeq(s, Min(keep), Max(keep)) :
       keep \in {{i \in 1..Len(s) : s[i] \notin Space}}})
\* String.prototype.split('\n')
RECURSIVE SplitLines(_)
SplitLines(s) ==
  The({IF nl = {} THEN <<s>>
       ELSE <<SubSeq(s, 1, Min(nl) - 1)>>
              \o SplitLines(SubSeq(s, Min(nl) + 1, Len(s))) :
       nl \in {{i \in 1..Len(s) : s[i] = "\n"}}})
\* Array.prototype.join
RECURSIVE Join(_, _)
Join(lines, sep) ==
  IF lines = <<>> THEN <<>>
  ELSE IF Len(lines) = 1 THEN lines[1]
  ELSE lines[1] \o sep \o Join(Tail(lines), sep)

\* A value that may be null: <<>> is null, <<x>> is x.
Null == <<>>
Some(x) == <<x>>
\* The truthiness of a string or null: null and '' are falsy.
Truthy(v) == v # Null /\ v[1] # <<>>

\* An object used as a map, as the sequence of its [key, value] entries in
\* insertion order; assigning to a key it has keeps the key's place.
EmptyObj == <<>>
Keys(obj) == {obj[i][1] : i \in DOMAIN obj}
Put(obj, k, v) ==
  IF k \in Keys(obj)
  THEN [i \in DOMAIN obj |-> IF obj[i][1] = k THEN <<k, v>> ELSE obj[i]]
  ELSE Append(obj, <<k, v>>)

----------------------------------------------------------------------------
(* The extraction functions.                                               *)

\* /export class (Md\w+)/
ClassNamePattern ==
  <<One(EC), One(" "), One("M"), One("d"), In(WordChars, "+")>>

ExtractClassName_AnyWord(content) ==
  The({IF m = <<>> THEN Null ELSE Some(Group(content, m, 3, 3)) :
       m \in {Search(<<One(EC), One(" "), In(WordChars, "+")>>, content, 1)}})

\* extractClassName, lines 142-145: null or the first group of the match.
ExtractClassName(content) ==
  The({IF m = <<>> THEN Null ELSE Some(Group(content, m, 3, 5)) :
       m \in {Search(ClassNamePattern, content, 1)}})

\* /@customElement\(['"`]([^'"`]+)['"`]\)/
TagNamePattern ==
  <<One(CE), One("("), In(Quotes, "1"), NotIn(Quotes, "+"), In(Quotes, "1"),
    One(")")>>

\* extractTagName, lines 154-157: null or the first group of the match.
ExtractTagName(content) ==
  The({IF m = <<>> THEN Null ELSE Some(Group(content, m, 4, 4)) :
       m \in {Search(TagNamePattern, content, 1)}})

\* /@fires\s+(\w+)\s+\{[^}]*\}\s*([^@\n]*)/g
FiresPattern ==
  <<One(FIRES), In(Space, "+"), In(WordChars, "+"), In(Space, "+"), One("{"),
    NotIn({"}"}, "*"), One("}"), In(Space, "*"), NotIn({"@", "\n"}, "*")>>

ReactEventName_NoUpper(eventName) == <<"on">> \o eventName

\* `on${eventName.charAt(0).toUpperCase()}${eventName.slice(1)}`
ReactEventName(eventName) ==
  IF eventName = <<>> THEN <<"on">>
  ELSE <<"on", ToUpperCase(eventName[1])>> \o Tail(eventName)

\* The loop over content.matchAll(FiresPattern), from position from on.
RECURSIVE FiresFrom(_, _, _)
FiresFrom(content, from, events) ==
  The({IF m = <<>> THEN ev
       ELSE FiresFrom(content, MatchEnd(m),
              Put(ev, ReactEventName(Group(content, m, 3, 3)),
                  Group(content, m, 3, 3))) :
       m \in {Search(FiresPattern, content, from)}, ev \in {events}})

\* The filter of the files of the internal subdirectory.
InternalCandidate(file) ==
  /\ EndsWith(file, <<".", "t", "s">>)
  /\ ~Includes(file, <<"s", "t", "y", "l", "e", "s">>)
  /\ ~Includes(file, <<"t", "e", "s", "t">>)

\* What the file system does to the reads of one call of extractEvents: all
\* succeed, the listing of the subdirectory fails, the read of a file fails.
EventReads == {"ok", "listFails", "readFails"}

\* The kinds of I/O failure one call of extractEvents meets: the listing
\* fails also when there is no internal subdirectory.
EventsFailures(internal, o) ==
  IF ~internal.exists \/ o = "listFails" THEN {"readdirInternal"}
  ELSE IF /\ \E i \in DOMAIN internal.files :
               InternalCandidate(internal.files[i].name)
          /\ o = "readFails"
       THEN {"readInternalFile"}
       ELSE {}

RECURSIVE EventsOfAll(_, _)
EventsOfAll(files, events) ==
  IF files = <<>> THEN events
  ELSE EventsOfAll(Tail(files),
         IF InternalCandidate(files[1].name)
         THEN FiresFrom(files[1].content, 1, events) ELSE events)

ExtractEvents_AllFiles(internal, o) ==
  IF ~internal.exists \/ o # "ok" THEN EmptyObj
  ELSE EventsOfAll(internal.files, EmptyObj)

\* extractEvents, lines 171-199: internal is the internal subdirectory,
\* [exists, files], and o what the file system does to the reads of the call.
ExtractEvents(internal, o) ==
  IF ~internal.exists \/ o = "listFails" THEN EmptyObj
  ELSE The({IF cand = {} THEN EmptyObj
            ELSE IF o = "readFails" THEN EmptyObj
            ELSE FiresFrom(internal.files[Min(cand)].content, 1, EmptyObj) :
            cand \in {{i \in DOMAIN internal.files :
                         InternalCandidate(internal.files[i].name)}}})

\* /\/\*\*\s*([\s\S]*?)\s*\*\/\s*export class/
ClassDocPattern ==
  <<One("/"), One("*"), One("*"), In(Space, "*"), NotIn({}, "*?"),
    In(Space, "*"), One("*"), One("/"), In(Space, "*"), One(EC)>>

\* /\/\*\*\s*([\s\S]*?)\s*\*\/\s*@property[^}]*?\s+(\w+)/g
PropertyPattern ==
  <<One("/"), One("*"), One("*"), In(Space, "*"), NotIn({}, "*?"),
    In(Space, "*"), One("*"), One("/"), In(Space, "*"), One(PROP),
    NotIn({"}"}, "*?"), In(Space, "+"), In(WordChars, "+")>>

\* line.replace(/^\s*\*\s?/, '').trim()
CleanLine(line) ==
  The({Trim(IF m = <<>> THEN line ELSE SubSeq(line, MatchEnd(m), Len(line))) :
       m \in {MatchFrom(<<In(Space, "*"), One("*"), In(Space, "?")>>, 1, line, 1)}})

\* line && !line.startsWith('@')
KeepLine(line) == line # <<>> /\ line[1] \notin {"@", CE, FIRES, PROP}

\* split, map, filter and join of extractDocumentation.
CleanDoc(docContent, sep) ==
  The({Join(SelectSeq([i \in DOMAIN lines |-> CleanLine(lines[i])], KeepLine), sep) :
       lines \in {SplitLines(docContent)}})

\* The loop over content.matchAll(PropertyPattern), from position from on.
RECURSIVE PropertiesFrom(_, _, _)
PropertiesFrom(content, from, propertyDocs) ==
  The({IF m = <<>> THEN docs
       ELSE PropertiesFrom(content, MatchEnd(m),
              The({IF cleanDoc # <<>>
                   THEN Put(docs, Group(content, m, 13, 13), cleanDoc)
                   ELSE docs :
                   cleanDoc \in {CleanDoc(Group(content, m, 5, 5), <<" ">>)}})) :
       m \in {Search(PropertyPattern, content, from)}, docs \in {propertyDocs}})

\* extractDocumentation, lines 209-243.
ExtractDocumentation(content) ==
  The({[documentation |->
          IF m = <<>> THEN <<>> ELSE CleanDoc(Group(content, m, 5, 5), <<"\n">>),
        propertyDocs |-> PropertiesFrom(content, 1, EmptyObj)] :
       m \in {Search(ClassDocPattern, content, 1)}})

----------------------------------------------------------------------------
(* findAllComponentVariants: one file of the component directory.          *)

TS == <<".", "t", "s">>

\* The filter of the files of a component directory.
Candidate(file) ==
  /\ EndsWith(file, TS)
  /\ ~Includes(file, <<"i", "n", "t", "e", "r", "n", "a", "l">>)
  /\ ~Includes(file, <<"t", "e", "s", "t">>)
  /\ ~Includes(file, <<"d", "e", "m", "o">>)

\* The outcomes of the reads one iteration of the loop makes: the read of
\* the file, and the reads of the call of extractEvents.
FileReads == [readOk : BOOLEAN, ev : EventReads]

\* The local state of findAllComponentVariants: its variants, whether an
\* error was thrown, and as history the number of calls of extractEvents,
\* the failures each call met and all the failures met.
NewLoc == [variants |-> <<>>, threw |-> FALSE, calls |-> 0, reads |-> <<>>,
           fails |-> {}]

FileStep_EventsOnce(componentName, internal, file, o, l) ==
  IF ~Candidate(file.name) THEN l
  ELSE IF ~o.readOk
  THEN [l EXCEPT !.threw = TRUE, !.fails = @ \cup {"readFile"}]
  ELSE The({
          IF /\ Includes(content, <<CE>>) /\ Includes(content, <<EC>>)
             /\ Truthy(className) /\ Truthy(tagName)
          THEN [l EXCEPT
                  !.variants = Append(@,
                    [fileName |-> Replace(file.name, TS, <<>>),
                     className |-> className[1],
                     tagName |-> tagName[1],
                     importPath |-> <<"@material/web/">> \o componentName
                        \o <<"/">> \o Replace(file.name, TS, <<".", "j", "s">>),
                     events |-> IF first THEN ExtractEvents(internal, o.ev)
                                ELSE l.variants[1].events,
                     documentation |-> docs.documentation,
                     propertyDocs |-> docs.propertyDocs]),
                  !.calls = IF first THEN @ + 1 ELSE @,
                  !.reads = IF first THEN Append(@, EventsFailures(internal, o.ev))
                           ELSE @,
                  !.fails = IF first THEN @ \cup EventsFailures(internal, o.ev)
                            ELSE @]
          ELSE l :
          content \in {file.content},
          className \in {ExtractClassName(file.content)},
          tagName \in {ExtractTagName(file.content)},
          docs \in {ExtractDocumentation(file.content)},
          first \in {l.variants = <<>>}})

\* The body of the loop over the files, lines 103-127: l is the local state
\* before, the result the local state after.
FileStep(componentName, internal, file, o, l) ==
  IF ~Candidate(file.name) THEN l
  ELSE IF ~o.readOk
  THEN [l EXCEPT !.threw = TRUE, !.fails = @ \cup {"readFile"}]
  ELSE The({
          IF /\ Includes(content, <<CE>>) /\ Includes(content, <<EC>>)
             /\ Truthy(className) /\ Truthy(tagName)
          THEN [l EXCEPT
                  !.variants = Append(@,
                    [fileName |-> Replace(file.name, TS, <<>>),
                     className |-> className[1],
                     tagName |-> tagName[1],
                     importPath |-> <<"@material/web/">> \o componentName
                        \o <<"/">> \o Replace(file.name, TS, <<".", "j", "s">>),
                     events |-> ExtractEvents(internal, o.ev),
                     documentation |-> docs.documentation,
                     propertyDocs |-> docs.propertyDocs]),
                  !.calls = @ + 1,
                  !.reads = Append(@, EventsFailures(internal, o.ev)),
                  !.fails = @ \cup EventsFailures(internal, o.ev)]
          ELSE l :
          content \in {file.content},
          className \in {ExtractClassName(file.content)},
          tagName \in {ExtractTagName(file.content)},
          docs \in {ExtractDocumentation(file.content)}})

FindVariantsCatch_KeepPartial(l) == l.variants

\* The catch of findAllComponentVariants, lines 131-133: return [].
FindVariantsCatch(l) == <<>>

----------------------------------------------------------------------------
(* analyzeComponentStructure and createOutputStructure.                    *)

\* The folders analyzeComponentStructure leaves out.
Excluded ==
  {<<"d","o","c","s">>, <<"t","e","s","t","i","n","g">>,
   <<"t","o","k","e","n","s">>, <<"s","c","r","i","p","t","s">>,
   <<"c","a","t","a","l","o","g">>}

\* The condition on an entry of the source root, lines 67-71.
IsComponentDir(entry) ==
  /\ entry.isDir
  /\ ~StartsWith(entry.name, <<".">>)
  /\ entry.name \notin Excluded

PushComponent_Always(comps, name, variants) ==
  Append(comps, [name |-> name, variants |-> variants])

\* Lines 75-80: a component is kept when it has a variant.
PushComponent(comps, name, variants) ==
  IF Len(variants) > 0
  THEN Append(comps, [name |-> name, variants |-> variants])
  ELSE comps

\* The export record of a variant, lines 409-414.
ExportOf(variant, folder) ==
  [componentName |-> variant.className,
   propsName |-> variant.className \o <<"Props">>,
   elementName |-> variant.className \o <<"Element">>,
   folder |-> folder]

CollectExports_Front(exports, component) ==
  [i \in DOMAIN component.variants |->
     ExportOf(component.variants[i], component.name)] \o exports

\* Lines 408-415: the export records of a component are added at the end.
CollectExports(exports, component) ==
  exports \o [i \in DOMAIN component.variants |->
                ExportOf(component.variants[i], component.name)]

\* A line of the main index, line 439.
ExportLine(exp) ==
  <<"export { ">> \o exp.componentName \o <<", type ">> \o exp.propsName
    \o <<", type ">> \o exp.elementName \o <<" } from './">> \o exp.folder
    \o <<"'">>

\* The lines generateMainIndex writes after the header, lines 437-441.
MainIndexLines(exports) == [i \in DOMAIN exports |-> ExportLine(exports[i])]

\* The module of a component, reduced to the components it defines (one
\* createComponent call per variant); '' when it has no variant.
GenerateReactWrapper(component) ==
  [i \in DOMAIN component.variants |->
     [name |-> component.variants[i].className,
      tagName |-> component.variants[i].tagName,
      events |-> component.variants[i].events]]

OutputDir == <<"src">>
\* path.join
PathJoin(a, b) == a \o <<"/">> \o b

MainExit_Zero(threw) == 0

\* The exit status main() ends with: 1 from its catch, 0 when it returns.
MainExit(threw) == IF threw THEN 1 ELSE 0

----------------------------------------------------------------------------
(* The source trees of the model.                                          *)

\* The sequences of at most n elements of S with distinct names: a listing
\* of a directory.
Listings(S, n) ==
  UNION {{l \in [1..k -> S] :
            \A i, j \in 1..k : i # j => l[i].name # l[j].name} : k \in 0..n}

FileA ==
  [name |-> <<"a", ".", "t", "s">>,
   content |-> <<CE, "(", SQ, "m", "-", "a", SQ, ")", "\n",
                 EC, " ", "M", "d", "A", " ", "{", "}">>]
FileB ==
  [name |-> <<"b", ".", "t", "s">>,
   content |-> <<"/", "*", "*", " ", "D", " ", "*", "/", "\n",
                 EC, " ", "M", "d", "B", " ", "{", "}", "\n",
                 CE, "(", DQ, "m", "-", "b", DQ, ")">>]
\* A file with no class export.
FileN ==
  [name |-> <<"n", ".", "t", "s">>,
   content |-> <<CE, "(", SQ, "m", "-", "n", SQ, ")", "\n", "M", "d", "N">>]
SampleFiles == {FileA, FileB, FileN}

InternalX ==
  [name |-> <<"x", ".", "t", "s">>,
   content |-> <<" ", "*", " ", FIRES, " ", "c", " ", "{", "E", "}", " ", "t", "\n">>]
InternalStyles ==
  [name |-> <<"s", "t", "y", "l", "e", "s", ".", "t", "s">>,
   content |-> <<FIRES, " ", "h", " ", "{", "}">>]
NoInternal == [exists |-> FALSE, files |-> <<>>]
SampleInternals ==
  {NoInternal, [exists |-> TRUE, files |-> <<InternalStyles, InternalX>>]}

ComponentNames == {<<"b", "t", "n">>, <<"c", "h", "i", "p">>}
\* The entries of the source root: component directories, and entries the
\* walker leaves out (an excluded folder, a hidden folder, a plain file).
RootEntries ==
  [name : ComponentNames, isDir : {TRUE}, files : Listings(SampleFiles, MaxFiles),
   internal : SampleInternals]
  \cup
  {[name |-> <<"d", "o", "c", "s">>, isDir |-> TRUE, files |-> <<>>,
    internal |-> NoInternal],
   [name |-> <<".", "g", "i", "t">>, isDir |-> TRUE, files |-> <<>>,
    internal |-> NoInternal],
   [name |-> <<"R", "E", "A", "D", "M", "E">>, isDir |-> FALSE, files |-> <<>>,
    internal |-> NoInternal]}
Trees == Listings(RootEntries, MaxEntries)

----------------------------------------------------------------------------
(* The run of main().                                                      *)

UnitIdle == uIn = <<>> /\ uOut = <<>> /\ uDone = FALSE

Init ==
  /\ tree \in Trees
  /\ pc = "clone"
  /\ exitCode = -1
  /\ di = 0
  /\ fi = 0
  /\ loc = NewLoc
  /\ components = <<>>
  /\ returns = <<>>
  /\ ci = 0
  /\ outDirs = <<>>
  /\ modules = <<>>
  /\ allExports = <<>>
  /\ manifest = Null
  /\ cleaned = FALSE
  /\ io = {}
  /\ UnitIdle

\* An error reaches the catch of main(): lines 500-503.
Throw(kind) ==
  /\ pc' = "exited"
  /\ exitCode' = MainExit(TRUE)
  /\ io' = io \cup {kind}

\* cloneRepository, lines 42-51.
CloneRepository ==
  /\ pc = "clone"
  /\ \E ok \in BOOLEAN :
       IF ok THEN pc' = "analyze" /\ UNCHANGED <<exitCode, io>>
       ELSE pc' = "exited" /\ exitCode' = 1 /\ io' = io \cup {"clone"}
  /\ UNCHANGED <<tree, di, fi, loc, components, returns, ci, outDirs, modules,
                 allExports, manifest, cleaned, unitVars>>

\* analyzeComponentStructure, lines 61-65: the listing of the source root.
ReaddirRoot ==
  /\ pc = "analyze"
  /\ \E ok \in BOOLEAN :
       IF ok THEN pc' = "entry" /\ di' = 1 /\ UNCHANGED <<exitCode, io>>
       ELSE Throw("readdirRoot") /\ UNCHANGED di
  /\ UNCHANGED <<tree, fi, loc, components, returns, ci, outDirs, modules,
                 allExports, manifest, cleaned, unitVars>>

\* Lines 66-71: an entry that is no component directory is passed over.
SkipEntry ==
  /\ pc = "entry"
  /\ di <= Len(tree)
  /\ ~IsComponentDir(tree[di])
  /\ di' = di + 1
  /\ UNCHANGED <<tree, pc, exitCode, fi, loc, components, returns, ci, outDirs,
                 modules, allExports, manifest, cleaned, io, unitVars>>

\* What findAllComponentVariants returned for entry di, and lines 73-80.
Returned(variants, l, failedFile) ==
  /\ returns' = Append(returns,
       [entry |-> di, variants |-> variants, threw |-> l.threw,
        failedFile |-> failedFile, calls |-> l.calls, reads |-> l.reads])
  /\ components' = PushComponent(components, tree[di].name, variants)
  /\ io' = io \cup l.fails
  /\ di' = di + 1
  /\ pc' = "entry"

\* Lines 72-73 and 99-100: findAllComponentVariants is called and lists the
\* component directory.
ReaddirComponent ==
  /\ pc = "entry"
  /\ di <= Len(tree)
  /\ IsComponentDir(tree[di])
  /\ \E ok \in BOOLEAN :
       IF ok
       THEN /\ pc' = "files"
            /\ fi' = 1
            /\ loc' = NewLoc
            /\ UNCHANGED <<di, components, returns, io>>
       ELSE \E l \in {[NewLoc EXCEPT !.threw = TRUE,
                                     !.fails = {"readdirComponent"}]} :
              Returned(FindVariantsCatch(l), l, 0) /\ UNCHANGED <<fi, loc>>
  /\ UNCHANGED <<tree, exitCode, ci, outDirs, modules, allExports, manifest,
                 cleaned, unitVars>>

\* Lines 102-128: one iteration of the loop over the files.
ProcessFile ==
  /\ pc = "files"
  /\ fi <= Len(tree[di].files)
  /\ \E o \in FileReads :
       \E l \in {FileStep(tree[di].name, tree[di].internal, tree[di].files[fi],
                          o, loc)} :
          IF l.threw
          THEN Returned(FindVariantsCatch(l), l, fi) /\ UNCHANGED <<fi, loc>>
          ELSE /\ loc' = l
               /\ fi' = fi + 1
               /\ UNCHANGED <<pc, di, components, returns, io>>
  /\ UNCHANGED <<tree, exitCode, ci, outDirs, modules, allExports, manifest,
                 cleaned, unitVars>>

\* Line 130: the loop is over, the variants are returned.
ReturnVariants ==
  /\ pc = "files"
  /\ fi > Len(tree[di].files)
  /\ Returned(loc.variants, loc, 0)
  /\ UNCHANGED <<tree, exitCode, fi, loc, ci, outDirs, modules, allExports,
                 manifest, cleaned, unitVars>>

\* Lines 84 and 389-395: the components are returned and the output
\* directory is made.
MkdirOutput ==
  /\ pc = "entry"
  /\ di > Len(tree)
  /\ \E ok \in BOOLEAN :
       IF ok
       THEN /\ outDirs' = Append(outDirs, OutputDir)
            /\ ci' = 1
            /\ pc' = "modules"
            /\ UNCHANGED <<exitCode, io>>
       ELSE Throw("mkdir") /\ UNCHANGED <<outDirs, ci>>
  /\ UNCHANGED <<tree, di, fi, loc, components, returns, modules, allExports,
                 manifest, cleaned, unitVars>>

\* Lines 397-416: the directory and the module of one component.
WriteComponent ==
  /\ pc = "modules"
  /\ ci <= Len(components)
  /\ LET component == components[ci]
         componentDir == PathJoin(OutputDir, component.name)
     IN \E mkdirOk, writeOk \in BOOLEAN :
          IF ~mkdirOk
          THEN Throw("mkdir") /\ UNCHANGED <<outDirs, modules, allExports, ci>>
          ELSE IF ~writeOk
          THEN /\ Throw("writeModule")
               /\ outDirs' = Append(outDirs, componentDir)
               /\ UNCHANGED <<modules, allExports, ci>>
          ELSE /\ outDirs' = Append(outDirs, componentDir)
               /\ modules' = Append(modules,
                    [path |-> PathJoin(componentDir, <<"index.tsx">>),
                     content |-> GenerateReactWrapper(component)])
               /\ allExports' = CollectExports(allExports, component)
               /\ ci' = ci + 1
               /\ UNCHANGED <<pc, exitCode, io>>
  /\ UNCHANGED <<tree, di, fi, loc, components, returns, manifest, cleaned,
                 unitVars>>

GenerateMainIndex_Early ==
  /\ pc = "modules"
  /\ manifest' = Some(MainIndexLines(allExports))
  /\ pc' = "cleanup"
  /\ UNCHANGED <<tree, exitCode, di, fi, loc, components, returns, ci, outDirs,
                 modules, allExports, cleaned, io, unitVars>>

\* Lines 419 and 434-461: the main index is written.
GenerateMainIndex ==
  /\ pc = "modules"
  /\ ci > Len(components)
  /\ \E ok \in BOOLEAN :
       IF ok
       THEN /\ manifest' = Some(MainIndexLines(allExports))
            /\ pc' = "cleanup"
            /\ UNCHANGED <<exitCode, io>>
       ELSE Throw("writeManifest") /\ UNCHANGED manifest
  /\ UNCHANGED <<tree, di, fi, loc, components, returns, ci, outDirs, modules,
                 allExports, cleaned, unitVars>>

\* cleanup, lines 470-478: a failure is caught and logged.
Cleanup ==
  /\ pc = "cleanup"
  /\ \E ok \in BOOLEAN :
       /\ cleaned' = ok
       /\ io' = IF ok THEN io ELSE io \cup {"cleanup"}
  /\ pc' = "done"
  /\ UNCHANGED <<tree, exitCode, di, fi, loc, components, returns, ci, outDirs,
                 modules, allExports, manifest, unitVars>>

\* Lines 498-499: main() returns and the process ends.
MainReturn ==
  /\ pc = "done"
  /\ pc' = "exited"
  /\ exitCode' = MainExit(FALSE)
  /\ UNCHANGED <<tree, di, fi, loc, components, returns, ci, outDirs, modules,
                 allExports, manifest, cleaned, io, unitVars>>

Next ==
  \/ CloneRepository
  \/ ReaddirRoot
  \/ SkipEntry
  \/ ReaddirComponent
  \/ ProcessFile
  \/ ReturnVariants
  \/ MkdirOutput
  \/ WriteComponent
  \/ GenerateMainIndex
  \/ Cleanup
  \/ MainReturn

Spec == Init /\ [][Next]_vars

----------------------------------------------------------------------------
(* Properties of the run.                                                  *)

Names(comps) == {comps[i].name : i \in DOMAIN comps}
FileNames(variants) == [i \in DOMAIN variants |-> variants[i].fileName]
ComponentDirs == {k \in DOMAIN tree : IsComponentDir(tree[k])}
\* The run is past analyzeComponentStructure.
Analyzed == pc \in {"modules", "cleanup", "done"} \/ (pc = "exited" /\ exitCode = 0)

\* The local state findAllComponentVariants ends with on the files of a
\* directory when every read succeeds.
RECURSIVE FoldFiles(_, _, _)
FoldFiles(entry, files, l) ==
  IF files = <<>> THEN l
  ELSE FoldFiles(entry, Tail(files),
         FileStep(entry.name, entry.internal, files[1],
                  [readOk |-> TRUE, ev |-> "ok"], l))
Without(files, k) == SubSeq(files, 1, k - 1) \o SubSeq(files, k + 1, Len(files))

\* C1, as claimed: when the read of a file fails, the variants returned for
\* the directory are those of the directory without that file.
C1_FailedReadIsAbsence ==
  \A i \in DOMAIN returns :
    returns[i].failedFile # 0 =>
      FileNames(returns[i].variants) =
        FileNames(FoldFiles(tree[returns[i].entry],
                            Without(tree[returns[i].entry].files,
                                    returns[i].failedFile),
                            NewLoc).variants)

\* C1, amended: when the read of a file (or the listing of the directory)
\* fails, findAllComponentVariants returns no variant at all for the
\* directory, which therefore gives no component; the walk goes on, so that
\* a run that gets past the analysis has called it for every component
\* directory of the source root.
C1_FailedReadEmptiesDirectory ==
  /\ \A i \in DOMAIN returns :
       returns[i].threw =>
         /\ returns[i].variants = <<>>
         /\ tree[returns[i].entry].name \notin Names(components)
  /\ Analyzed => {returns[i].entry : i \in DOMAIN returns} = ComponentDirs

\* A run that got past the analysis although the read of the second file of
\* a directory failed after its first file had given a variant, and that
\* found a component in a later directory.
C1_Witness ==
  /\ pc = "done"
  /\ \E i, j \in DOMAIN returns :
       /\ i < j
       /\ returns[i].failedFile = 2
       /\ tree[returns[i].entry].files[1] = FileA
       /\ returns[i].variants = <<>>
       /\ returns[j].variants # <<>>

\* C2, as claimed: extractEvents is called once per component directory,
\* and all the variants of a directory carry the same events.
C2_OncePerDirectory ==
  \A i \in DOMAIN returns :
    /\ returns[i].calls = 1
    /\ \A a, b \in DOMAIN returns[i].variants :
         returns[i].variants[a].events = returns[i].variants[b].events

\* The calls of extractEvents and the variants of one call of
\* findAllComponentVariants: one call per variant found, a call that met a
\* failure gave no event, and two calls that met the same gave the same.
OneCallPerVariant(variants, calls, reads) ==
  /\ calls = Len(variants)
  /\ Len(reads) = Len(variants)
  /\ \A a \in DOMAIN variants : reads[a] # {} => variants[a].events = EmptyObj
  /\ \A a, b \in DOMAIN variants :
       reads[a] = reads[b] => variants[a].events = variants[b].events

\* C2, amended: extractEvents is called once for each variant found (as
\* many times per directory as files gave a variant, never for a directory
\* without one), and each variant carries the result of its own call: two
\* variants of a directory have the same events when their calls met the
\* same outcome of the reads of the internal subdirectory, and a variant
\* whose call met a failure has none.
C2_OncePerVariant ==
  /\ pc = "files" => OneCallPerVariant(loc.variants, loc.calls, loc.reads)
  /\ \A i \in DOMAIN returns :
       ~returns[i].threw =>
         OneCallPerVariant(returns[i].variants, returns[i].calls, returns[i].reads)

\* A directory with two variants, of which one has events and the other,
\* whose call met a failure, has none.
C2_Witness ==
  \E i \in DOMAIN returns :
    /\ returns[i].calls = 2
    /\ Len(returns[i].variants) = 2
    /\ returns[i].variants[1].events # EmptyObj
    /\ returns[i].variants[2].events = EmptyObj

\* The sample files that give a variant when read.
YieldingFiles ==
  {f \in SampleFiles :
     FoldFiles([name |-> <<"x">>, internal |-> NoInternal], <<f>>, NewLoc).variants
       # <<>>}

\* C3: a directory for which no variant was found (none of its files gives
\* one, or its listing or a read failed) is no component, gets no output
\* directory and no index.tsx, and no line of the main index names it;
\* every component has a variant.
C3_NoEmptyComponent ==
  /\ \A c \in DOMAIN components : Len(components[c].variants) > 0
  /\ \A k \in ComponentDirs :
       (\A f \in DOMAIN tree[k].files : tree[k].files[f] \notin YieldingFiles) =>
         tree[k].name \notin Names(components)
  /\ \A i \in DOMAIN returns :
       returns[i].variants = <<>> =>
         \E n \in {tree[returns[i].entry].name} :
           /\ n \notin Names(components)
           /\ \A d \in DOMAIN outDirs : outDirs[d] # PathJoin(OutputDir, n)
           /\ \A m \in DOMAIN modules :
                modules[m].path #
                  PathJoin(PathJoin(OutputDir, n), <<"index.tsx">>)
           /\ \A e \in DOMAIN allExports : allExports[e].folder # n
           /\ manifest # Null =>
                \A x \in DOMAIN manifest[1] :
                  ~EndsWith(manifest[1][x], <<" } from './">> \o n \o <<"'">>)

\* The main index was written in a run that found a component after a
\* directory that gave no variant.
C3_Witness ==
  /\ manifest # Null
  /\ \E i, j \in DOMAIN returns :
       /\ returns[i].variants = <<>>
       /\ returns[j].variants # <<>>
  /\ modules # <<>>

\* The re-export line of a variant in a folder.
LineOf(variant, folder) ==
  <<"export { ">> \o variant.className \o <<", type ">> \o variant.className
    \o <<"Props", ", type ">> \o variant.className \o <<"Element", " } from './">>
    \o folder \o <<"'">>
\* The lines of the variants returned, in the order of the calls.
RECURSIVE LinesOfReturns(_)
LinesOfReturns(rs) ==
  IF rs = <<>> THEN <<>>
  ELSE [v \in DOMAIN rs[1].variants |->
          LineOf(rs[1].variants[v], tree[rs[1].entry].name)]
         \o LinesOfReturns(Tail(rs))
\* The place of the file of a variant in the listing of its directory.
PlaceOf(variant, files) ==
  CHOOSE k \in DOMAIN files : Replace(files[k].name, TS, <<>>) = variant.fileName

\* C4: the main index has one line per variant, the lines of a component
\* in the order of its variants and the components in the order the walker
\* found them; the variants of a directory are in the order of its listing.
C4_ManifestInOrder ==
  /\ manifest # Null => manifest[1] = LinesOfReturns(returns)
  /\ \A i \in DOMAIN returns :
       /\ \A a, b \in DOMAIN returns[i].variants :
            a < b => PlaceOf(returns[i].variants[a], tree[returns[i].entry].files)
                       < PlaceOf(returns[i].variants[b], tree[returns[i].entry].files)
       /\ \A j \in DOMAIN returns : i < j => returns[i].entry < returns[j].entry

\* A main index of three lines for two components.
C4_Witness ==
  /\ manifest # Null
  /\ Len(manifest[1]) = 3
  /\ Len(components) = 2
  /\ Len(components[1].variants) = 2

\* The kinds of failure that end the run.
Fatal == {"clone", "readdirRoot", "mkdir", "writeModule", "writeManifest"}

\* C7: the process ends with status 1 when the clone, the listing of the
\* source root, or the making or writing of an output directory, module or
\* main index failed, and with status 0 otherwise; the failures of the
\* listing of a component directory, of the read of a file, of the reads of
\* an internal subdirectory (and of the cleanup) do not change the status,
\* and the run goes on after them.
C7_ExitStatus ==
  /\ pc = "exited" => exitCode = (IF io \cap Fatal # {} THEN 1 ELSE 0)
  /\ pc # "exited" => exitCode = -1 /\ io \cap Fatal = {}

\* A run that ended with status 0 although the listing of a component
\* directory, the read of a file and the read of an internal file failed.
C7_Witness ==
  /\ pc = "exited"
  /\ exitCode = 0
  /\ {"readdirComponent", "readFile", "readInternalFile"} \subseteq io

\* The place of a component in the listing of the source root.
EntryOf(name) == CHOOSE k \in DOMAIN tree : tree[k].name = name
\* The cleanup was attempted.
CleanupRun == cleaned \/ "cleanup" \in io

\* What a state tells of the steps behind it: an output directory is made
\* only after the clone, the listing of the source root and the extraction
\* for every component directory; the modules written are those of the
\* first components, in the order of the walker; the main index is written
\* only after the module of every component; the cleanup runs only after
\* the main index; a failed write ends the run with status 1, the main index
\* unwritten and the cleanup not run; a failed cleanup leaves status 0.
StepsBehind ==
  /\ outDirs # <<>> =>
       /\ {"clone", "readdirRoot"} \cap io = {}
       /\ di > Len(tree)
       /\ Len(returns) = Cardinality(ComponentDirs)
  /\ modules # <<>> => outDirs[1] = OutputDir
  /\ Len(modules) <= Len(components)
  /\ \A k \in DOMAIN modules :
       modules[k].path =
         PathJoin(PathJoin(OutputDir, components[k].name), <<"index.tsx">>)
  /\ \A k, l \in DOMAIN components :
       k < l => EntryOf(components[k].name) < EntryOf(components[l].name)
  /\ manifest # Null =>
       /\ Len(modules) = Len(components)
       /\ io \cap Fatal = {}
  /\ CleanupRun => manifest # Null /\ pc \in {"done", "exited"}
  /\ io \cap Fatal # {} =>
       /\ pc = "exited"
       /\ exitCode = 1
       /\ manifest = Null
       /\ ~CleanupRun
  /\ "writeModule" \in io => Len(modules) < Len(components)
  /\ (pc = "exited" /\ "cleanup" \in io) =>
       /\ exitCode = 0
       /\ manifest # Null
       /\ Len(modules) = Len(components)

\* What a step does: the modules are written one at a time, before the main
\* index and never again; the main index is written once, when every module
\* is, before the cleanup; the cleanup runs once, after the main index;
\* nothing happens after a failure that ended the run.
StepInOrder ==
  /\ modules' # modules =>
       /\ Len(modules') = Len(modules) + 1
       /\ SubSeq(modules', 1, Len(modules)) = modules
       /\ manifest = Null /\ manifest' = Null
       /\ ~CleanupRun /\ ~CleanupRun'
  /\ manifest' # manifest =>
       /\ manifest = Null
       /\ Len(modules) = Len(components)
       /\ modules' = modules
       /\ ~CleanupRun /\ ~CleanupRun'
  /\ (CleanupRun' /\ ~CleanupRun) =>
       /\ manifest # Null
       /\ manifest' = manifest
       /\ modules' = modules
  /\ CleanupRun => (cleaned' = cleaned /\ io' = io)
  /\ pc = "exited" => UNCHANGED vars

\* C11: the steps of a run happen in a fixed order, each only when the
\* earlier ones did not fail: clone, listing of the source root, extraction
\* for every component directory, one module per component in the order of
\* the walker, the main index once after the last module, the cleanup; a
\* failed module write leaves the main index unwritten and the cleanup not
\* run, and a failed cleanup leaves the exit status 0.
C11_StepsInOrder == []StepsBehind /\ [][StepInOrder]_vars

\* A module was written, the write of the next one failed, and the run
\* ended without main index and without cleanup.
C11_Witness ==
  /\ pc = "exited"
  /\ "writeModule" \in io
  /\ Len(modules) = 1
  /\ Len(components) = 2
  /\ manifest = Null
  /\ ~CleanupRun

----------------------------------------------------------------------------
(* The unit specifications: one function applied to an input drawn from a  *)
(* bounded set, the run of main() left aside.                              *)

PipeIdle ==
  /\ tree = <<>>
  /\ pc = "idle"
  /\ exitCode = -1
  /\ di = 0
  /\ fi = 0
  /\ loc = NewLoc
  /\ components = <<>>
  /\ returns = <<>>
  /\ ci = 0
  /\ outDirs = <<>>
  /\ modules = <<>>
  /\ allExports = <<>>
  /\ manifest = Null
  /\ cleaned = FALSE
  /\ io = {}

\* The sequences of at most n elements of S.
SeqsUpTo(S, n) == UNION {[1..k -> S] : k \in 0..n}
\* The sequences of 1 to n elements of S.
Words(S, n) == SeqsUpTo(S, n) \ {<<>>}
\* The texts of a sequence of pieces, each followed by sep.
RECURSIVE Concat(_, _)
Concat(pieces, sep) ==
  IF pieces = <<>> THEN <<>>
  ELSE pieces[1].text \o sep \o Concat(Tail(pieces), sep)

(* One file of a component directory.  A source text is made of pieces, one *)
(* per line: decorators and class declarations, well-formed or not; a piece *)
(* tells the tag name or class name it declares, if any.                    *)
Piece(text, className, tagName) ==
  [text |-> text, className |-> className, tagName |-> tagName]
Pieces ==
  {Piece(<<CE, "(", SQ, "m", "-", "a", SQ, ")">>, Null, Some(<<"m", "-", "a">>)),
   Piece(<<CE, "(", DQ, "m", BQ, ")">>, Null, Some(<<"m">>)),
   Piece(<<CE, "(", SQ, SQ, ")">>, Null, Null),
   Piece(<<CE, "(", "m", ")">>, Null, Null),
   Piece(<<CE, "(", SQ, "m", ")">>, Null, Null),
   Piece(<<"@", "c", "(", SQ, "m", SQ, ")">>, Null, Null),
   Piece(<<EC, " ", "M", "d", "A", " ", "{">>, Some(<<"M", "d", "A">>), Null),
   Piece(<<EC, " ", "M", "d", "_", "1">>, Some(<<"M", "d", "_", "1">>), Null),
   Piece(<<EC, " ", "M", "d", " ", "{">>, Null, Null),
   Piece(<<EC, " ", "F", "o", "o", " ", "{">>, Null, Null),
   Piece(<<EC, " ", " ", "M", "d", "A">>, Null, Null),
   Piece(<<"c", "l", "a", "s", "s", " ", "M", "d", "A">>, Null, Null)}

NameChars == {"a", ".", "t", "s"}
\* File names: all the short names over NameChars, and names the filter of
\* the loop refuses.
NameInputs ==
  Words(NameChars, MaxNameLen)
  \cup {<<"a", ".", "t", "e", "s", "t", ".", "t", "s">>,
        <<"d", "e", "m", "o", ".", "t", "s">>,
        <<"i", "n", "t", "e", "r", "n", "a", "l", ".", "t", "s">>,
        <<"a", ".", "j", "s">>}

\* The pieces of a file that yields a variant.
FilePieces ==
  <<Piece(<<CE, "(", SQ, "m", "-", "a", SQ, ")">>, Null, Some(<<"m", "-", "a">>)),
    Piece(<<EC, " ", "M", "d", "A", " ", "{">>, Some(<<"M", "d", "A">>), Null)>>

FileInputs ==
  {[componentName |-> <<"b", "t", "n">>, pieces |-> FilePieces,
    file |-> [name |-> n, content |-> Concat(FilePieces, <<"\n">>)]] :
     n \in NameInputs}
  \cup
  {[componentName |-> <<"b", "t", "n">>, pieces |-> ps,
    file |-> [name |-> FileA.name, content |-> Concat(ps, <<"\n">>)]] :
     ps \in SeqsUpTo(Pieces, MaxPieces)}

InitFile == PipeIdle /\ uIn \in FileInputs /\ uOut = NewLoc /\ uDone = FALSE

\* One iteration of the loop of findAllComponentVariants on the input.
ApplyFileStep ==
  /\ pc = "idle"
  /\ ~uDone
  /\ \E readOk \in BOOLEAN :
       uOut' = FileStep(uIn.componentName, NoInternal, uIn.file,
                        [readOk |-> readOk, ev |-> "ok"], NewLoc)
  /\ uDone' = TRUE
  /\ UNCHANGED <<pipeVars, uIn>>

NextFile == ApplyFileStep
SpecFile == InitFile /\ [][NextFile]_vars

(* extractEvents.  An internal file tells, as fires, the event names its    *)
(* well-formed @fires annotations declare, in order.                        *)
EventChars == {"c", "C", "h"}
EventNames == Words(EventChars, 2)
\* An annotation: with its {type}, as the pattern wants it, or without.
Annotation(a) ==
  <<" ", "*", " ", FIRES, " ">> \o a.name
    \o (IF a.typed THEN <<" ", "{", "E", "}", " ", "t">> ELSE <<" ", "t">>)
    \o <<"\n">>
RECURSIVE Annotations(_)
Annotations(as) ==
  IF as = <<>> THEN <<>> ELSE Annotation(as[1]) \o Annotations(Tail(as))
Declared(as) ==
  [i \in DOMAIN SelectSeq(as, LAMBDA a : a.typed) |->
     SelectSeq(as, LAMBDA a : a.typed)[i].name]
AnnotatedFiles ==
  {[name |-> <<"x", ".", "t", "s">>, content |-> Annotations(as),
    fires |-> Declared(as)] :
     as \in SeqsUpTo([name : EventNames, typed : BOOLEAN], MaxFires)}

Fire(n) == <<FIRES, " ">> \o n \o <<" ", "{", "}", "\n">>
InternalFiles ==
  {[name |-> <<"x", ".", "t", "s">>, content |-> Fire(<<"c">>),
    fires |-> <<<<"c">>>>],
   [name |-> <<"y", ".", "t", "s">>, content |-> Fire(<<"h">>) \o Fire(<<"c">>),
    fires |-> <<<<"h">>, <<"c">>>>],
   [name |-> <<"z", ".", "t", "s">>, content |-> <<"/", "/", " ", "t", "\n">>,
    fires |-> <<>>],
   [name |-> <<"s", "t", "y", "l", "e", "s", ".", "t", "s">>,
    content |-> Fire(<<"k">>), fires |-> <<<<"k">>>>],
   [name |-> <<"x", "_", "t", "e", "s", "t", ".", "t", "s">>,
    content |-> Fire(<<"k">>), fires |-> <<<<"k">>>>],
   [name |-> <<"x", ".", "j", "s">>, content |-> Fire(<<"k">>),
    fires |-> <<<<"k">>>>]}

EventInputs ==
  {NoInternal}
  \cup {[exists |-> TRUE, files |-> <<f>>] : f \in AnnotatedFiles}
  \cup {[exists |-> TRUE, files |-> l] : l \in Listings(InternalFiles, MaxInternal)}

InitEvents == PipeIdle /\ uIn \in EventInputs /\ uOut = <<>> /\ uDone = FALSE

\* One call of extractEvents on the input.
ApplyExtractEvents ==
  /\ pc = "idle"
  /\ ~uDone
  /\ \E o \in EventReads :
       uOut' = [o |-> o, events |-> ExtractEvents(uIn, o)]
  /\ uDone' = TRUE
  /\ UNCHANGED <<pipeVars, uIn>>

NextEvents == ApplyExtractEvents
SpecEvents == InitEvents /\ [][NextEvents]_vars

(* extractDocumentation.  A source text is a sequence of segments: comment  *)
(* blocks, code, white space and class exports; a segment tells its kind    *)
(* and the word it contributes.                                             *)
Segment(kind, word, text) == [kind |-> kind, word |-> word, text |-> text]
Segments ==
  {Segment("block", "L", <<"/", "*", "*", " ", "L", " ", "*", "/">>),
   Segment("block", "D",
           <<"/", "*", "*", "\n", " ", "*", " ", "D", "\n", " ", "*", " ", "@",
             "a", "\n", " ", "*", "/">>),
   Segment("code", "I", <<"I", ";">>),
   Segment("space", " ", <<"\n">>),
   Segment("space", " ", <<" ">>),
   Segment("class", "X", <<EC, " ", "M", "d", "X", " ", "{">>),
   Segment("class", "F", <<EC, " ", "F", "o", "o", " ", "{">>)}

DocInputs ==
  {[segments |-> ss, content |-> Concat(ss, <<>>)] :
     ss \in SeqsUpTo(Segments, MaxSegments)}

InitDoc == PipeIdle /\ uIn \in DocInputs /\ uOut = <<>> /\ uDone = FALSE

\* One call of extractDocumentation on the input.
ApplyExtractDocumentation ==
  /\ pc = "idle"
  /\ ~uDone
  /\ uOut' = ExtractDocumentation(uIn.content)
  /\ uDone' = TRUE
  /\ UNCHANGED <<pipeVars, uIn>>

NextDoc == ApplyExtractDocumentation
SpecDoc == InitDoc /\ [][NextDoc]_vars

----------------------------------------------------------------------------
(* One file: class name, tag name, import path.                            *)

IsMdName(n) ==
  /\ Len(n) >= 3
  /\ n[1] = "M"
  /\ n[2] = "d"
  /\ \A i \in 3..Len(n) : n[i] \in WordChars
IsTag(t) == t # <<>> /\ \A i \in DOMAIN t : t[i] \notin Quotes

\* C5: a file contributes at most one variant; the variant's className is
\* 'Md' followed by one or more word characters and its tagName is non-empty
\* and holds no quote character; a file without the custom-element marker,
\* the class-export marker, a well-formed class declaration or a well-formed
\* decorator contributes none.
C5_VariantWellFormed ==
  uDone =>
    /\ Len(uOut.variants) <= 1
    /\ \A i \in DOMAIN uOut.variants :
         /\ IsMdName(uOut.variants[i].className)
         /\ IsTag(uOut.variants[i].tagName)
         /\ \E k \in DOMAIN uIn.pieces :
              uIn.pieces[k].className = Some(uOut.variants[i].className)
         /\ \E k \in DOMAIN uIn.pieces :
              uIn.pieces[k].tagName = Some(uOut.variants[i].tagName)
    /\ (\/ ~Includes(uIn.file.content, <<CE>>)
        \/ ~Includes(uIn.file.content, <<EC>>)
        \/ \A k \in DOMAIN uIn.pieces : ~Truthy(uIn.pieces[k].className)
        \/ \A k \in DOMAIN uIn.pieces : ~Truthy(uIn.pieces[k].tagName))
       => uOut.variants = <<>>

\* A variant comes out of a text that also exports a class whose name the
\* pattern refuses.
C5_Witness ==
  /\ uDone
  /\ Len(uOut.variants) = 1
  /\ \E k \in DOMAIN uIn.pieces :
       /\ uIn.pieces[k].text[1] = EC
       /\ ~Truthy(uIn.pieces[k].className)

\* The file name without its trailing '.ts'.
WithoutExtension(name) == SubSeq(name, 1, Len(name) - 3)

\* C6: for every emitted variant, importPath is '@material/web/' + the
\* component directory name + '/' + the file name with its trailing '.ts'
\* removed + '.js', and fileName is the file name with that extension
\* removed, also when the name holds '.ts' at an earlier position.
C6_ImportPathFromTrailingExtension ==
  uDone =>
    \A i \in DOMAIN uOut.variants :
      /\ uOut.variants[i].importPath =
           <<"@material/web/">> \o uIn.componentName \o <<"/">>
             \o WithoutExtension(uIn.file.name) \o <<".", "j", "s">>
      /\ uOut.variants[i].fileName = WithoutExtension(uIn.file.name)

----------------------------------------------------------------------------
(* The event mapping.                                                      *)

EventCandidates == {i \in DOMAIN uIn.files : InternalCandidate(uIn.files[i].name)}
EventValues == {uOut.events[i][2] : i \in DOMAIN uOut.events}

\* The events the scanned file declares, in order.
Fires ==
  IF uIn.exists /\ EventCandidates # {}
  THEN uIn.files[Min(EventCandidates)].fires ELSE <<>>
Capitalized(n) == <<ToUpperCase(n[1])>> \o Tail(n)

\* C8: the mapping is built from the first candidate file of the listing
\* only: it holds the events that file declares and none a later candidate
\* file alone declares, also when the first declares none; without internal
\* subdirectory, without candidate file or on a failed read it is empty.
C8_FirstCandidateOnly ==
  uDone =>
    IF ~uIn.exists \/ uOut.o # "ok" \/ EventCandidates = {}
    THEN uOut.events = EmptyObj
    ELSE /\ EventValues \subseteq Range(Fires)
         /\ Keys(uOut.events) = {<<"on">> \o Capitalized(n) : n \in Range(Fires)}
         /\ \A j \in EventCandidates \ {Min(EventCandidates)} :
              \A n \in Range(uIn.files[j].fires) \ Range(Fires) :
                n \notin EventValues

\* The first candidate declares no event, a later one does, and the mapping
\* is empty.
C8_Witness ==
  /\ uDone
  /\ uOut.o = "ok"
  /\ uIn.exists
  /\ Cardinality(EventCandidates) = 2
  /\ uIn.files[Min(EventCandidates)].fires = <<>>
  /\ uIn.files[Max(EventCandidates)].fires # <<>>
  /\ uOut.events = EmptyObj

\* C9 as stated: every key is 'on' + the capitalised event name and maps to
\* that name, and two distinct declared names give two distinct keys: the
\* mapping has one entry per distinct declared name, none overwritten.
C9_OneEntryPerName ==
  (uDone /\ uOut.o = "ok") =>
    /\ \A i \in DOMAIN uOut.events :
         uOut.events[i][1] = <<"on">> \o Capitalized(uOut.events[i][2])
    /\ Len(uOut.events) = Cardinality(Range(Fires))
    /\ \A n \in Range(Fires) : n \in EventValues

\* C9: every key is 'on' + the capitalised event name and maps to a declared
\* name that gives it, the last so declared; keys are distinct, and the
\* mapping has one entry per distinct capitalised name: names that differ in
\* the case of their first character only share one entry.
C9_OneEntryPerCapitalizedName ==
  (uDone /\ uOut.o = "ok") =>
    /\ \A i \in DOMAIN uOut.events :
         /\ uOut.events[i][1] = <<"on">> \o Capitalized(uOut.events[i][2])
         /\ \E k \in DOMAIN Fires :
              /\ Fires[k] = uOut.events[i][2]
              /\ \A l \in DOMAIN Fires :
                   Capitalized(Fires[l]) = Capitalized(Fires[k]) => l <= k
    /\ \A i, j \in DOMAIN uOut.events :
         i # j => uOut.events[i][1] # uOut.events[j][1]
    /\ Len(uOut.events) = Cardinality({Capitalized(n) : n \in Range(Fires)})
    /\ \A n, m \in Range(Fires) :
         (<<"on">> \o Capitalized(n) = <<"on">> \o Capitalized(m))
           <=> (Tail(n) = Tail(m) /\ ToUpperCase(n[1]) = ToUpperCase(m[1]))

\* Two names that differ in the case of the first character were declared,
\* and the mapping has one entry.
C9_Witness ==
  /\ uDone
  /\ uOut.o = "ok"
  /\ Fires = << <<"c">>, <<"C">> >>
  /\ uOut.events = << <<(<<"on", "C">>), <<"C">> >> >>

----------------------------------------------------------------------------
(* The class documentation.                                                *)

\* The segment after segment i that is not white space, if any.
NextCode(i) ==
  Min({j \in (i + 1)..Len(uIn.segments) : uIn.segments[j].kind # "space"}
      \cup {Len(uIn.segments) + 1})
\* The comment blocks immediately followed by a class export.
ClassDocs ==
  {i \in DOMAIN uIn.segments :
     /\ uIn.segments[i].kind = "block"
     /\ NextCode(i) <= Len(uIn.segments)
     /\ uIn.segments[NextCode(i)].kind = "class"}

\* C10: documentation is taken from a comment block immediately followed by
\* the class export: no word of another comment block and no code of the
\* text appears in it; without such a block it is empty.
C10_NearestBlockOnly ==
  uDone =>
    IF ClassDocs = {} THEN uOut.documentation = <<>>
    ELSE \E d \in ClassDocs :
           \A j \in DOMAIN uIn.segments :
             (/\ uIn.segments[j].kind \in {"block", "code"}
              /\ uIn.segments[j].word # uIn.segments[d].word)
               => uIn.segments[j].word \notin Range(uOut.documentation)

====
